---- MODULE Spec2Model ----
(***************************************************************************)
(* A model of package mvc (src/mvc.go): the one-time build of the view     *)
(* template registry (SetupViews, parseViewDirectory) and the per-request  *)
(* lookup and execution of a view (render).                                *)
(*                                                                         *)
(* A Go string is modelled as a sequence of tokens: a token is either the  *)
(* separator "/" or a path element ("views", "home", ...).  The empty      *)
(* string is the empty sequence.  Two strings are equal iff their token    *)
(* sequences are equal, so "views/" (<<"views", "/">>) and "views" differ. *)
(***************************************************************************)
EXTENDS Naturals, Sequences, FiniteSets

VARIABLES
    fs,           \* the directory tree on disk (the environment of the build)
    templates,    \* var templates map[string]*template.Template
    viewRootDir,  \* var viewRootDir string
    nSetup,       \* number of SetupViews calls made so far
    setupRet,     \* how the last SetupViews call ended
    buildRet,     \* how the last build (a call that went past the guard) ended
    lastOp,       \* the operation that ran last
    built,        \* number of SetupViews calls that went past the guard
    openErrs,     \* directories whose open/list failed during the last build
    prev,         \* templates and viewRootDir as they were before the last call
    resp,         \* the response written by the last render call
    pc,           \* position of each concurrent SetupViews caller
    arg,          \* rootDir argument of each concurrent SetupViews caller
    req,          \* the request at hand: the values of its query parameter
    got,          \* the last query accessor call and what it returned
    call          \* the last render call and the View it passed to the template

vars == <<fs, templates, viewRootDir, nSetup, setupRet, buildRet, lastOp, built,
          openErrs, prev, resp, pc, arg, req, got, call>>

-----------------------------------------------------------------------------
(* Bounds *)

\* SetupViews calls made in one behaviour
MaxSetup == 2

-----------------------------------------------------------------------------
(* Strings and paths *)

Slash == "/"

EmptyString == <<>>

\* fmt.Sprintf("%s/%s", a, b)
Sprintf2(a, b) == a \o <<Slash>> \o b

\* fmt.Sprintf("%s/%s/%s", a, b, c)
Sprintf3(a, b, c) == a \o <<Slash>> \o b \o <<Slash>> \o c

\* the path elements of a string, separators dropped
Elements(s) == SelectSeq(s, LAMBDA t : t # Slash)

RECURSIVE JoinElements(_)
JoinElements(es) ==
    IF Len(es) = 0 THEN <<>>
    ELSE IF Len(es) = 1 THEN es
    ELSE <<es[1], Slash>> \o JoinElements(Tail(es))

\* path.Clean on the strings enumerated here (no "." or ".." elements):
\* repeated separators collapse, a trailing separator is dropped, a leading
\* separator is kept, and the empty result is ".".
Clean(s) ==
    LET rooted == Len(s) > 0 /\ s[1] = Slash
        body   == JoinElements(Elements(s))
    IN  IF rooted THEN <<Slash>> \o body
        ELSE IF body = <<>> THEN <<".">>
        ELSE body

\* path.Join(a, b): empty arguments are ignored, the rest joined by "/" and
\* cleaned; all arguments empty gives the empty string.
PathJoin(a, b) ==
    IF a = <<>> /\ b = <<>> THEN <<>>
    ELSE IF a = <<>> THEN Clean(b)
    ELSE IF b = <<>> THEN Clean(a)
    ELSE Clean(a \o <<Slash>> \o b)

-----------------------------------------------------------------------------
(* The directory tree *)

\* name of the view root directory on disk, relative to the working directory
RootName == "views"

\* directories on disk, each named by its path elements below the view root
Dirs == { <<>>, <<"home">>, <<"home", "index">>, <<"home", "contact">> }

DirNames == {"home", "index", "contact"}

\* template file names (all match the pattern "*.html")
FileNames == {"base.html", "content.html"}

\* result of resolving a path that names no directory
NoDir == <<"?">>

NoFault == [kind |-> "none", dir |-> <<>>, name |-> ""]

\* at most one thing is wrong with the tree: a directory that cannot be
\* opened or listed, or a template file that does not parse
Faults ==
    {NoFault}
    \cup {[kind |-> "unreadable", dir |-> d, name |-> ""] : d \in Dirs}
    \cup {[kind |-> "badfile", dir |-> d, name |-> n] : d \in Dirs, n \in FileNames}

\* the files a directory may hold: the root and the controller directories
\* any of the template files, a view directory its own content.html
Layout(d) == IF Len(d) < 2 THEN SUBSET FileNames ELSE SUBSET {"content.html"}

FileSystems ==
    { f \in [files : [Dirs -> SUBSET FileNames], fault : Faults] :
        /\ \A d \in Dirs : f.files[d] \in Layout(d)
        /\ f.fault.kind = "badfile" => f.fault.name \in f.files[f.fault.dir] }

Children(d) == { n \in DirNames : Append(d, n) \in Dirs }

\* the directory a path string names, as the operating system resolves it
Resolve(path) ==
    LET es == Elements(path)
    IN  IF Len(es) > 0 /\ es[1] = RootName /\ Tail(es) \in Dirs
        THEN Tail(es) ELSE NoDir

\* the orders in which a directory listing can come back: each is an order
\* of all entry names, of which a directory lists the ones it holds
ListOrders ==
    { <<"base.html", "content.html", "home", "index", "contact">>,
      <<"contact", "index", "home", "content.html", "base.html">> }

\* rootDir arguments passed to SetupViews
RootArgs == { <<>>, <<"views">>, <<"views", "/">>, <<"nowhere">> }

\* controller and view names passed to render
ControllerNames == {"home", "admin"}

ViewNames == {"index", "contact"}

-----------------------------------------------------------------------------
(* parseViewDirectory *)

EmptyMap == [k \in {} |-> <<>>]

\* os.Open(dirname) followed by f.Readdir(-1): the entries of the directory
\* in listing order, or failure
OpenFails(f, dirname) ==
    \/ Resolve(dirname) = NoDir
    \/ f.fault.kind = "unreadable" /\ f.fault.dir = Resolve(dirname)

Readdir(f, dirname, order) ==
    LET d == Resolve(dirname)
    IN  SelectSeq(order, LAMBDA n : n \in f.files[d] \cup Children(d))

IsDir(n) == n \in DirNames

\* path.Match("*.html", name)
IsHtml(n) == n \in FileNames

\* AddViews with the override lost: a name inherited from a parent directory
\* keeps the parent's file
RECURSIVE AddViewsKeepParent(_, _, _)
AddViewsKeepParent(views, dirname, list) ==
    IF list = <<>> THEN views
    ELSE LET n  == Head(list)
             v1 == IF ~IsDir(n) /\ IsHtml(n) /\ n \notin DOMAIN views
                   THEN [k \in DOMAIN views \cup {n} |->
                            IF k = n THEN PathJoin(dirname, <<n>>) ELSE views[k]]
                   ELSE views
         IN  AddViewsKeepParent(v1, dirname, Tail(list))

\* first loop of parseViewDirectory: views[f.Name()] = path.Join(dirname, f.Name())
RECURSIVE AddViews(_, _, _)
AddViews(views, dirname, list) ==
    IF list = <<>> THEN views
    ELSE LET n  == Head(list)
             v1 == IF ~IsDir(n) /\ IsHtml(n)
                   THEN [k \in DOMAIN views \cup {n} |->
                            IF k = n THEN PathJoin(dirname, <<n>>) ELSE views[k]]
                   ELSE views
         IN  AddViews(v1, dirname, Tail(list))

\* the file a path string names: its directory and its name
FileOf(path) ==
    LET es == Elements(path)
    IN  [dir |-> Resolve(SubSeq(path, 1, Len(path) - 2)), name |-> es[Len(es)]]

\* t.ParseFiles(htmlTemplates...) fails when one of the files does not parse
ParseFails(f, views) ==
    \E k \in DOMAIN views :
        /\ f.fault.kind = "badfile"
        /\ FileOf(views[k]).dir = f.fault.dir
        /\ FileOf(views[k]).name = f.fault.name

\* t.ParseFiles(htmlTemplates...): each file defines the template named by
\* its base name, with the body read from that file (of two files with the
\* same base name one wins)
ParseFiles(views) ==
    LET names == { FileOf(views[k]).name : k \in DOMAIN views }
    IN  [n \in names |->
            FileOf(views[CHOOSE k \in DOMAIN views : FileOf(views[k]).name = n])]

\* templates[dirname] = template.Must(t.ParseFiles(htmlTemplates...))
Register(reg, dirname, views) ==
    [k \in DOMAIN reg \cup {dirname} |->
        IF k = dirname THEN ParseFiles(views) ELSE reg[k]]

\* parseViewDirectory(dirname, parentViews) run on registry reg.
\* Result: the registry afterwards, how the call ended ("nil", "err",
\* "panic") and the directories whose open or listing failed.
RECURSIVE parseViewDirectory(_, _, _, _, _)
RECURSIVE walkChildren(_, _, _, _, _, _)

\* second loop of parseViewDirectory: the recursive calls, whose returned
\* error is discarded; a panic in a call unwinds the loop
walkChildren(f, dirname, views, list, order, acc) ==
    IF list = <<>> \/ acc.out = "panic" THEN acc
    ELSE IF ~IsDir(Head(list))
    THEN walkChildren(f, dirname, views, Tail(list), order, acc)
    ELSE LET r == parseViewDirectory(f, PathJoin(dirname, <<Head(list)>>),
                                     views, acc.reg, order)
         IN  walkChildren(f, dirname, views, Tail(list), order,
                 [reg  |-> r.reg,
                  out  |-> IF r.out = "panic" THEN "panic" ELSE "nil",
                  errs |-> acc.errs \cup r.errs])

parseViewDirectory(f, dirname, parentViews, reg, order) ==
    IF OpenFails(f, dirname)
    THEN [reg |-> reg, out |-> "err", errs |-> {dirname}]
    ELSE LET list  == Readdir(f, dirname, order)
             views == AddViews(parentViews, dirname, list)
             sub   == walkChildren(f, dirname, views, list, order,
                                   [reg |-> reg, out |-> "nil", errs |-> {}])
         IN  IF sub.out = "panic" THEN sub
             ELSE IF DOMAIN views = {} THEN sub
             ELSE IF ParseFails(f, views)
             THEN [reg |-> sub.reg, out |-> "panic", errs |-> sub.errs]
             ELSE [reg  |-> Register(sub.reg, dirname, views),
                   out  |-> "nil",
                   errs |-> sub.errs]

-----------------------------------------------------------------------------
(* render *)

StatusInternalServerError == 500

\* what a request can do to the execution of a template: nothing, make it
\* fail before any output, or make it fail after the base text is written
ExecFaults == {"none", "early", "late"}

NewResponse == [status |-> 0, body |-> <<>>]

\* w.Write(chunk): the first write sends the header with status 200
Write(w, chunk) ==
    [status |-> IF w.status = 0 THEN 200 ELSE w.status,
     body   |-> Append(w.body, chunk)]

\* w.WriteHeader(code): ignored once the header has been sent
WriteHeader(w, code) ==
    [status |-> IF w.status = 0 THEN code ELSE w.status, body |-> w.body]

\* http.Error with the status code dropped: only the message is written
HttpErrorNoStatus(w, msg, code) == Write(w, msg)

\* http.Error(w, msg, code)
HttpError(w, msg, code) == Write(WriteHeader(w, code), msg)

Text(file) == [kind |-> "text", dir |-> file.dir, name |-> file.name]

ExecError == [kind |-> "execerror", dir |-> <<>>, name |-> ""]

\* fmt.Sprintf("The templates for %v were not found.", name)
NotFound(name) == [kind |-> "notfound", dir |-> name, name |-> ""]

\* t.ExecuteTemplate(w, "base.html", vm) for templates shaped as in the
\* package's test: base.html is text followed by {{template "content.html" .}}.
\* A missing base.html or content.html fails before any output.
ExecuteTemplate(w, t, fault) ==
    IF "base.html" \notin DOMAIN t \/ "content.html" \notin DOMAIN t
       \/ fault = "early"
    THEN [w |-> w, err |-> TRUE]
    ELSE IF fault = "late"
    THEN [w |-> Write(w, Text(t["base.html"])), err |-> TRUE]
    ELSE [w |-> Write(Write(w, Text(t["base.html"])), Text(t["content.html"])),
          err |-> FALSE]

NoKey == <<"?">>

\* Lookup with the order of the fallbacks changed: the root is tried first
LookupRootFirst(reg, root, controllerName, view) ==
    LET name1 == Sprintf3(root, <<controllerName>>, <<view>>)
        name2 == Sprintf2(root, <<controllerName>>)
        name3 == root
    IN  IF name3 \in DOMAIN reg THEN name3
        ELSE IF name2 \in DOMAIN reg THEN name2
        ELSE IF name1 \in DOMAIN reg THEN name1
        ELSE NoKey

\* the key render ends up with, or NoKey
Lookup(reg, root, controllerName, view) ==
    LET name1 == Sprintf3(root, <<controllerName>>, <<view>>)
        name2 == Sprintf2(root, <<controllerName>>)
        name3 == root
    IN  IF name1 \in DOMAIN reg THEN name1
        ELSE IF name2 \in DOMAIN reg THEN name2
        ELSE IF name3 \in DOMAIN reg THEN name3
        ELSE NoKey

\* render(w, controllerName, view, vm) on a fresh response
render(reg, root, controllerName, view, fault) ==
    LET key == Lookup(reg, root, controllerName, view)
    IN  IF key = NoKey
        THEN [controller |-> controllerName, view |-> view, used |-> NoKey,
              execs |-> 0, failed |-> FALSE,
              w |-> HttpError(NewResponse, NotFound(root),
                              StatusInternalServerError)]
        ELSE LET r == ExecuteTemplate(NewResponse, reg[key], fault)
             IN  [controller |-> controllerName, view |-> view, used |-> key,
                  execs |-> 1, failed |-> r.err,
                  w |-> IF r.err
                        THEN HttpError(r.w, ExecError, StatusInternalServerError)
                        ELSE r.w]

NoResponse ==
    [controller |-> "", view |-> "", used |-> NoKey, execs |-> 0,
     failed |-> FALSE, w |-> NewResponse]

\* the nil view model
Nil == "<nil>"

\* view models passed by callers
Models == {Nil, "everyone"}

\* make(map[string]interface{})
EmptyBag == [k \in {} |-> ""]

\* contents of a controller's ViewBag
Bags == {EmptyBag, [k \in {"title"} |-> "Home"]}

\* NewController(w, r, name)
NewController(name) == [Name |-> name, ViewBag |-> EmptyBag]

Controllers == [Name : ControllerNames, ViewBag : Bags]

\* NewView with the first two fields of the struct literal exchanged
NewViewSwapped(c, view, viewModel) ==
    [Controller |-> view, Name |-> c.Name, Bag |-> c.ViewBag, Model |-> viewModel]

\* &View{c.Name, view, c.ViewBag, viewModel}
NewView(c, view, viewModel) ==
    [Controller |-> c.Name, Name |-> view, Bag |-> c.ViewBag, Model |-> viewModel]

NoView == [Controller |-> "", Name |-> "", Bag |-> EmptyBag, Model |-> Nil]

\* the data t.ExecuteTemplate receives from render, if render gets that far
Passed(reg, root, controllerName, view, vm) ==
    IF Lookup(reg, root, controllerName, view) = NoKey THEN NoView ELSE vm

\* c.RenderViewModel(view, viewModel): the response and the View passed
renderViewModel(reg, root, c, view, viewModel, fault) ==
    [resp |-> render(reg, root, c.Name, view, fault),
     vm   |-> Passed(reg, root, c.Name, view, NewView(c, view, viewModel))]

NoRender ==
    [method |-> "none", c |-> NewController(""), view |-> "", model |-> Nil,
     vm |-> NoView]

-----------------------------------------------------------------------------
(* Query accessors *)

(* The value of a query parameter is a string of characters, modelled as a   *)
(* sequence of one-character tokens.  An int64 is modelled with its width:   *)
(* four 16-bit limbs, least significant first, in two's complement.          *)

Int64Bits == 64

LimbBase == 2^16

NumLimbs == Int64Bits \div 16

DigitChars == <<"0", "1", "2", "3", "4", "5", "6", "7", "8", "9">>

IsDigit(c) == \E i \in 1..10 : DigitChars[i] = c

DigitVal(c) == (CHOOSE i \in 1..10 : DigitChars[i] = c) - 1

\* limbs * m + a, with the carry out of the top limb
RECURSIVE MulAdd(_, _, _)
MulAdd(limbs, m, a) ==
    IF limbs = <<>> THEN [limbs |-> <<>>, carry |-> a]
    ELSE LET t    == limbs[1] * m + a
             rest == MulAdd(Tail(limbs), m, t \div LimbBase)
         IN  [limbs |-> <<t % LimbBase>> \o rest.limbs, carry |-> rest.carry]

Zero64 == [i \in 1..NumLimbs |-> 0]

\* two's complement negation modulo 2^64
Negate(v) == MulAdd([i \in 1..NumLimbs |-> LimbBase - 1 - v[i]], 1, 1).limbs

IsNegative(v) == v[NumLimbs] >= LimbBase \div 2

\* the digits of s as an unsigned 64-bit magnitude, or failure on overflow
RECURSIVE ParseUint(_, _)
ParseUint(s, acc) ==
    IF s = <<>> THEN [ok |-> TRUE, val |-> acc]
    ELSE LET r == MulAdd(acc, 10, DigitVal(Head(s)))
         IN  IF r.carry > 0 THEN [ok |-> FALSE, val |-> acc]
             ELSE ParseUint(Tail(s), r.limbs)

\* strconv.ParseInt(s, 10, 64): an optional sign and decimal digits; a syntax
\* error or a value outside [-2^63, 2^63-1] is an error
ParseInt(s) ==
    LET signed == s # <<>> /\ s[1] \in {"+", "-"}
        neg    == s # <<>> /\ s[1] = "-"
        digits == IF signed THEN Tail(s) ELSE s
    IN  IF digits = <<>> \/ \E i \in 1..Len(digits) : ~IsDigit(digits[i])
        THEN [ok |-> FALSE, val |-> Zero64]
        ELSE LET u == ParseUint(digits, Zero64)
                 minInt == [i \in 1..NumLimbs |->
                               IF i = NumLimbs THEN LimbBase \div 2 ELSE 0]
             IN  IF ~u.ok THEN [ok |-> FALSE, val |-> Zero64]
                 ELSE IF ~neg /\ IsNegative(u.val)
                 THEN [ok |-> FALSE, val |-> Zero64]
                 ELSE IF neg /\ IsNegative(u.val) /\ u.val # minInt
                 THEN [ok |-> FALSE, val |-> Zero64]
                 ELSE [ok |-> TRUE, val |-> IF neg THEN Negate(u.val) ELSE u.val]

\* the sizes the Go type int has, by platform
IntSizes == {32, 64}

\* int(x) for an int64 x: on a platform with 32-bit int the low 32 bits are
\* kept.  The result is given as the int64 of the same number.
ToInt(x, intSize) ==
    IF intSize = 64 THEN x
    ELSE [i \in 1..NumLimbs |->
             IF i <= 2 THEN x[i]
             ELSE IF x[2] >= LimbBase \div 2 THEN LimbBase - 1 ELSE 0]

\* c.Request.URL.Query()[queryParam]
GetStringSlice(r) == r.values

GetString(r, def) ==
    LET val == GetStringSlice(r)
    IN  IF Len(val) = 0 THEN def ELSE val[1]

GetInt64(r, def) ==
    LET str == GetString(r, <<>>)
    IN  IF str = <<>> THEN def
        ELSE IF ~ParseInt(str).ok THEN def
        ELSE ParseInt(str).val

GetInt(r, def) == ToInt(GetInt64(r, def), r.intSize)

\* the characters of decimal digits
Chars(ds) == [i \in 1..Len(ds) |-> DigitChars[ds[i] + 1]]

\* the parameter values of the requests examined
QueryValues ==
    { <<>>,
      << <<>> >>,
      << <<"7">> >>,
      << <<"7">>, <<"8">> >>,
      << <<"-", "7">> >>,
      << <<"+", "0", "7">> >>,
      << <<"a", "b">> >>,
      << <<"7", "x">> >>,
      << <<"-">> >>,
      << Chars(<<2,1,4,7,4,8,3,6,4,7>>) >>,
      << Chars(<<2,1,4,7,4,8,3,6,4,8>>) >>,
      << <<"-">> \o Chars(<<2,1,4,7,4,8,3,6,4,9>>) >>,
      << Chars(<<4,2,9,4,9,6,7,2,9,6>>) >>,
      << Chars(<<9,2,2,3,3,7,2,0,3,6,8,5,4,7,7,5,8,0,7>>) >>,
      << Chars(<<9,2,2,3,3,7,2,0,3,6,8,5,4,7,7,5,8,0,8>>) >>,
      << <<"-">> \o Chars(<<9,2,2,3,3,7,2,0,3,6,8,5,4,7,7,5,8,0,8>>) >>,
      << <<"-">> \o Chars(<<9,2,2,3,3,7,2,0,3,6,8,5,4,7,7,5,8,0,9>>) >>,
      << Chars(<<9,9,9,9,9,9,9,9,9,9,9,9,9,9,9,9,9,9,9,9>>) >> }

Requests == [values : QueryValues, intSize : IntSizes]

\* the defaults passed: strings, and the int64 values 0, -1, 5 and 2^32
StringDefaults == { <<>>, <<"d">> }

IntDefaults ==
    { Zero64,
      [i \in 1..NumLimbs |-> LimbBase - 1],
      [i \in 1..NumLimbs |-> IF i = 1 THEN 5 ELSE 0],
      [i \in 1..NumLimbs |-> IF i = 3 THEN 1 ELSE 0] }

NoRequest == [values |-> <<>>, intSize |-> 64]

NoCall == [op |-> "none", def |-> <<>>, result |-> <<>>]

-----------------------------------------------------------------------------
(* The program *)

Procs == {1, 2}

\* rootDir arguments of the concurrent callers
ConcRootArgs == { <<"views">>, <<"nowhere">> }

Init ==
    /\ fs \in FileSystems
    /\ templates = EmptyMap      \* the nil map: reads find nothing
    /\ viewRootDir = EmptyString
    /\ nSetup = 0
    /\ setupRet = "none"
    /\ buildRet = "none"
    /\ lastOp = "init"
    /\ built = 0
    /\ openErrs = {}
    /\ prev = [templates |-> EmptyMap, root |-> EmptyString]
    /\ resp = NoResponse
    /\ pc = [p \in Procs |-> "idle"]
    /\ arg = [p \in Procs |-> EmptyString]
    /\ req = NoRequest
    /\ got = NoCall
    /\ call = NoRender

\* SetupViews(rootDir), run to completion
SetupViews(rootDir, order) ==
    /\ nSetup < MaxSetup
    /\ nSetup' = nSetup + 1
    /\ lastOp' = "setup"
    /\ prev' = [templates |-> templates, root |-> viewRootDir]
    /\ IF viewRootDir # EmptyString
       THEN /\ setupRet' = "already"
            /\ UNCHANGED <<templates, viewRootDir, buildRet, built, openErrs>>
       ELSE LET r == parseViewDirectory(fs, rootDir, EmptyMap, EmptyMap, order)
            IN  /\ templates' = r.reg
                /\ viewRootDir' = rootDir
                /\ setupRet' = r.out
                /\ buildRet' = r.out
                /\ openErrs' = r.errs
                /\ built' = built + 1
    /\ UNCHANGED <<fs, resp, pc, arg, req, got, call>>

\* c.RenderViewModel(view, viewModel), run to completion
RenderViewModel(c, view, viewModel, fault) ==
    /\ LET r == renderViewModel(templates, viewRootDir, c, view, viewModel, fault)
       IN  /\ resp' = r.resp
           /\ call' = [method |-> "RenderViewModel", c |-> c, view |-> view,
                       model |-> viewModel, vm |-> r.vm]
    /\ lastOp' = "render"
    /\ UNCHANGED <<fs, templates, viewRootDir, nSetup, setupRet, buildRet, built,
                   openErrs, prev, pc, arg, req, got>>

\* Render with a lazy scan added: a call that finds no template set walks the
\* view directory and fills the registry
RenderLazyScan(c, view, fault) ==
    /\ LET r == renderViewModel(templates, viewRootDir, c, view, Nil, fault)
       IN  /\ resp' = r.resp
           /\ call' = [method |-> "Render", c |-> c, view |-> view,
                       model |-> Nil, vm |-> r.vm]
    /\ lastOp' = "render"
    /\ templates' =
           IF Lookup(templates, viewRootDir, c.Name, view) = NoKey
           THEN parseViewDirectory(fs, <<RootName>>, EmptyMap, templates,
                                   CHOOSE o \in ListOrders : TRUE).reg
           ELSE templates
    /\ UNCHANGED <<fs, viewRootDir, nSetup, setupRet, buildRet, built,
                   openErrs, prev, pc, arg, req, got>>

\* c.Render(view), which is c.RenderViewModel(view, nil), run to completion
Render(c, view, fault) ==
    /\ LET r == renderViewModel(templates, viewRootDir, c, view, Nil, fault)
       IN  /\ resp' = r.resp
           /\ call' = [method |-> "Render", c |-> c, view |-> view,
                       model |-> Nil, vm |-> r.vm]
    /\ lastOp' = "render"
    /\ UNCHANGED <<fs, templates, viewRootDir, nSetup, setupRet, buildRet, built,
                   openErrs, prev, pc, arg, req, got>>

Next ==
    \/ \E rootDir \in RootArgs, order \in ListOrders : SetupViews(rootDir, order)
    \/ \E c \in ControllerNames, v \in ViewNames, fault \in ExecFaults :
          Render(NewController(c), v, fault)

Spec == Init /\ [][Next]_vars

-----------------------------------------------------------------------------
(* SetupViews called from several goroutines: the package takes no lock, so  *)
(* the statements of the calls interleave.                                   *)

\* line 72: if viewRootDir != "" { return errors.New(...) }
CheckRoot(p, rootDir) ==
    /\ pc[p] = "idle"
    /\ arg' = [arg EXCEPT ![p] = rootDir]
    /\ nSetup' = nSetup + 1
    /\ lastOp' = "setup"
    /\ prev' = [templates |-> templates, root |-> viewRootDir]
    /\ IF viewRootDir # EmptyString
       THEN /\ setupRet' = "already"
            /\ pc' = [pc EXCEPT ![p] = "done"]
            /\ built' = built
       ELSE /\ setupRet' = setupRet
            /\ pc' = [pc EXCEPT ![p] = "make"]
            /\ built' = built + 1
    /\ UNCHANGED <<fs, templates, viewRootDir, buildRet, openErrs, resp, req, got, call>>

\* line 76: templates = make(map[string]*template.Template)
MakeTemplates(p) ==
    /\ pc[p] = "make"
    /\ templates' = EmptyMap
    /\ pc' = [pc EXCEPT ![p] = "setroot"]
    /\ lastOp' = "setup"
    /\ UNCHANGED <<fs, viewRootDir, nSetup, setupRet, buildRet, built, openErrs,
                   prev, resp, arg, req, got, call>>

\* line 78: viewRootDir = rootDir
SetRoot(p) ==
    /\ pc[p] = "setroot"
    /\ viewRootDir' = arg[p]
    /\ pc' = [pc EXCEPT ![p] = "parse"]
    /\ lastOp' = "setup"
    /\ UNCHANGED <<fs, templates, nSetup, setupRet, buildRet, built, openErrs,
                   prev, resp, arg, req, got, call>>

\* line 80: return parseViewDirectory(viewRootDir, nil), which reads the
\* global viewRootDir and writes into the global templates
ParseRoot(p, order) ==
    /\ pc[p] = "parse"
    /\ LET r == parseViewDirectory(fs, viewRootDir, EmptyMap, templates, order)
       IN  /\ templates' = r.reg
           /\ setupRet' = r.out
           /\ buildRet' = r.out
           /\ openErrs' = r.errs
    /\ pc' = [pc EXCEPT ![p] = "done"]
    /\ lastOp' = "setup"
    /\ UNCHANGED <<fs, viewRootDir, nSetup, built, prev, resp, arg, req, got, call>>

NextConc ==
    \/ \E p \in Procs, rootDir \in ConcRootArgs : CheckRoot(p, rootDir)
    \/ \E p \in Procs : MakeTemplates(p)
    \/ \E p \in Procs : SetRoot(p)
    \/ \E p \in Procs, order \in ListOrders : ParseRoot(p, order)
    \/ \E c \in ControllerNames, v \in ViewNames, fault \in ExecFaults :
          Render(NewController(c), v, fault)

\* the concurrent calls are examined on the trees that have no fault
InitConc == Init /\ fs.fault = NoFault

SpecConc == InitConc /\ [][NextConc]_vars

-----------------------------------------------------------------------------
(* Render calls with view models and view bags, on the trees without fault *)

NextView ==
    \/ \E rootDir \in ConcRootArgs, order \in ListOrders : SetupViews(rootDir, order)
    \/ \E c \in Controllers, v \in ViewNames, fault \in ExecFaults :
          Render(c, v, fault)
    \/ \E c \in Controllers, v \in ViewNames, m \in Models, fault \in ExecFaults :
          RenderViewModel(c, v, m, fault)

SpecView == InitConc /\ [][NextView]_vars

-----------------------------------------------------------------------------
(* The query accessors called on a request *)

InitQuery ==
    /\ fs = [files |-> [d \in Dirs |-> {}], fault |-> NoFault]
    /\ templates = EmptyMap
    /\ viewRootDir = EmptyString
    /\ nSetup = 0
    /\ setupRet = "none"
    /\ buildRet = "none"
    /\ lastOp = "init"
    /\ built = 0
    /\ openErrs = {}
    /\ prev = [templates |-> EmptyMap, root |-> EmptyString]
    /\ resp = NoResponse
    /\ pc = [p \in Procs |-> "idle"]
    /\ arg = [p \in Procs |-> EmptyString]
    /\ req \in Requests
    /\ got = NoCall
    /\ call = NoRender

\* what an accessor call leaves alone
queryFrame == <<fs, templates, viewRootDir, nSetup, setupRet, buildRet, lastOp,
                built, openErrs, prev, resp, pc, arg, req, call>>

CallGetStringSlice ==
    /\ got' = [op |-> "GetStringSlice", def |-> <<>>, result |-> GetStringSlice(req)]
    /\ UNCHANGED queryFrame

CallGetString(def) ==
    /\ got' = [op |-> "GetString", def |-> def, result |-> GetString(req, def)]
    /\ UNCHANGED queryFrame

CallGetInt64(def) ==
    /\ got' = [op |-> "GetInt64", def |-> def, result |-> GetInt64(req, def)]
    /\ UNCHANGED queryFrame

CallGetInt(def) ==
    /\ got' = [op |-> "GetInt", def |-> def, result |-> GetInt(req, def)]
    /\ UNCHANGED queryFrame

NextQuery ==
    \/ CallGetStringSlice
    \/ \E def \in StringDefaults : CallGetString(def)
    \/ \E def \in IntDefaults : CallGetInt64(def)
    \/ \E def \in IntDefaults : CallGetInt(def)

SpecQuery == InitQuery /\ [][NextQuery]_vars

-----------------------------------------------------------------------------
(* Properties *)

\* the directories on the path from the view root down to d
PathTo(d) == { SubSeq(d, 1, k) : k \in 0..Len(d) }

\* the template file names that occur in some directory on that path
NamesOnPath(d) == UNION { fs.files[p] : p \in PathTo(d) }

\* the deepest directory on that path that holds a file named n
Nearest(d, n) ==
    CHOOSE p \in PathTo(d) :
        /\ n \in fs.files[p]
        /\ \A q \in PathTo(d) : n \in fs.files[q] => Len(q) <= Len(p)

\* some registry key names directory d
Registered(d) == \E k \in DOMAIN templates : Resolve(k) = d

\* the last build met a failure: a directory that could not be read or a
\* template set that could not be compiled
BuildFailed == openErrs # {} \/ buildRet \in {"err", "panic"}

\* C1 (as claimed): every SetupViews call after the first returns the
\* "already initialized" error and leaves the registry and the recorded root
\* directory as they were, whatever the rootDir arguments.
C1_LaterCallsRejected ==
    [][(nSetup >= 1 /\ nSetup' = nSetup + 1) =>
           /\ setupRet' = "already"
           /\ templates' = templates
           /\ viewRootDir' = viewRootDir]_vars

\* C2: after a successful build, the template set of every registered
\* directory D holds exactly the names that occur on the root-to-D path, and
\* resolves each name to the file of the deepest directory on that path that
\* holds it.
C2_NearestWins ==
    buildRet = "nil" =>
        \A k \in DOMAIN templates :
            LET d == Resolve(k)
            IN  /\ d \in Dirs
                /\ DOMAIN templates[k] = NamesOnPath(d)
                /\ \A n \in NamesOnPath(d) :
                       templates[k][n] = [dir |-> Nearest(d, n), name |-> n]

\* a view directory overrides the root's content.html and inherits a base.html
C2_Witness ==
    /\ buildRet = "nil"
    /\ "content.html" \in fs.files[<<>>]
    /\ "content.html" \in fs.files[<<"home", "index">>]
    /\ \E k \in DOMAIN templates :
           /\ Resolve(k) = <<"home", "index">>
           /\ templates[k]["content.html"].dir = <<"home", "index">>
           /\ "base.html" \in DOMAIN templates[k]

\* C3 (as claimed): after a successful build, a directory under the root has
\* a registry entry if and only if some directory on its path from the root
\* holds a template file.
C3_EntryIffFiles ==
    buildRet = "nil" =>
        \A d \in Dirs : Registered(d) <=> NamesOnPath(d) # {}

\* C4 (as claimed): a failure to open or list any directory of the tree makes
\* SetupViews return that failure as an error.
C4_ReadFailureReported ==
    (lastOp = "setup" /\ setupRet # "already" /\ openErrs # {}) =>
        setupRet = "err"

\* C5 (as claimed): a build that fails leaves no template set registered.
C5_NoPartialRegistry ==
    (built >= 1 /\ BuildFailed) => DOMAIN templates = {}

\* the three keys of the last render call, most specific first
Key1 == viewRootDir \o <<"/", resp.controller, "/", resp.view>>

Key2 == viewRootDir \o <<"/", resp.controller>>

Key3 == viewRootDir

NoneRegistered == {Key1, Key2, Key3} \cap DOMAIN templates = {}

\* C6: render uses the template set of the first registered key among
\* root/controller/view, root/controller and root, and only when none of them
\* is registered it executes nothing and sends a 500 whose message names the
\* root.
C6_FirstRegisteredKey ==
    lastOp = "render" =>
        /\ Key1 \in DOMAIN templates => resp.used = Key1
        /\ (Key1 \notin DOMAIN templates /\ Key2 \in DOMAIN templates) =>
               resp.used = Key2
        /\ ({Key1, Key2} \cap DOMAIN templates = {} /\ Key3 \in DOMAIN templates) =>
               resp.used = Key3
        /\ ~NoneRegistered => resp.execs = 1
        /\ NoneRegistered =>
               /\ resp.execs = 0
               /\ resp.w = [status |-> 500, body |-> <<NotFound(viewRootDir)>>]

\* a render call that missed the view's own key and fell back to the
\* controller's although the root is registered too
C6_Witness ==
    /\ lastOp = "render"
    /\ Key1 \notin DOMAIN templates
    /\ Key2 \in DOMAIN templates
    /\ Key3 \in DOMAIN templates
    /\ resp.used = Key2

\* C7 (as claimed), on a tree in which nothing fails: when no template set is
\* registered at root/controller/view, render executes no template and
\* answers 500.
C7_MissAtViewKeyIs500 ==
    (lastOp = "render" /\ fs.fault = NoFault /\ Key1 \notin DOMAIN templates) =>
        (resp.execs = 0 /\ resp.w.status = 500)

\* C7 (amended): when no template set is registered at any of
\* root/controller/view, root/controller and root (as before any build),
\* render executes no template and answers 500.
C7_MissAtAllKeysIs500 ==
    (lastOp = "render" /\ NoneRegistered) =>
        (resp.execs = 0 /\ resp.failed = FALSE /\ resp.w.status = 500)

\* a render call made before any build
C7_Witness ==
    /\ lastOp = "render"
    /\ built = 0
    /\ NoneRegistered
    /\ resp.w.status = 500

\* C8 (as claimed): when the execution of the template set fails, at any
\* point, the response is a 500 and the execution ran once.
C8_ExecFailureIs500 ==
    (lastOp = "render" /\ resp.failed) =>
        (resp.w.status = 500 /\ resp.execs = 1)

\* C9 (as claimed), for the root directory "views": when the directory
\* root/c/v holds template files and a base.html exists on its path, render
\* (c, v) executes the nearest base.html with the nearest content.html, and
\* an execution that does not fail writes exactly these two.
C9_NearestBaseWraps ==
    LET d == <<resp.controller, resp.view>>
    IN  ( /\ lastOp = "render"
          /\ buildRet = "nil"
          /\ viewRootDir = <<"views">>
          /\ d \in Dirs
          /\ fs.files[d] # {}
          /\ "base.html" \in NamesOnPath(d) ) =>
            /\ resp.used # NoKey
            /\ {"base.html", "content.html"} \subseteq DOMAIN templates[resp.used]
            /\ templates[resp.used]["base.html"].dir = Nearest(d, "base.html")
            /\ templates[resp.used]["content.html"].dir = Nearest(d, "content.html")
            /\ ~resp.failed =>
                   resp.w.body =
                       << [kind |-> "text", dir |-> Nearest(d, "base.html"),
                           name |-> "base.html"],
                          [kind |-> "text", dir |-> Nearest(d, "content.html"),
                           name |-> "content.html"] >>

\* C10 (as claimed): however the SetupViews calls interleave, at most one of
\* them goes past the guard and builds.
C10_OneBuilder == built <= 1

\* C11: a render call, whether it hits, falls back, misses or fails during
\* the execution, leaves the registry and the recorded root directory as they
\* were.
C11_RenderWritesNothing ==
    [][lastOp' = "render" =>
           (templates' = templates /\ viewRootDir' = viewRootDir)]_vars

\* a render call on a built registry whose execution failed
C11_Witness ==
    /\ lastOp = "render"
    /\ DOMAIN templates # {}
    /\ resp.used # NoKey
    /\ resp.failed

\* the sign and the digits of a decimal string
IsSigned(str) == str # <<>> /\ str[1] \in {"+", "-"}

HasMinus(str) == str # <<>> /\ str[1] = "-"

DigitsOf(str) == IF IsSigned(str) THEN Tail(str) ELSE str

RECURSIVE StripZeros(_)
StripZeros(ds) ==
    IF Len(ds) > 1 /\ ds[1] = "0" THEN StripZeros(Tail(ds)) ELSE ds

\* a <= b for digit strings of the same length
RECURSIVE DigitsLeq(_, _)
DigitsLeq(a, b) ==
    IF a = <<>> THEN TRUE
    ELSE IF DigitVal(a[1]) < DigitVal(b[1]) THEN TRUE
    ELSE IF DigitVal(a[1]) > DigitVal(b[1]) THEN FALSE
    ELSE DigitsLeq(Tail(a), Tail(b))

MaxInt64Digits == Chars(<<9,2,2,3,3,7,2,0,3,6,8,5,4,7,7,5,8,0,7>>)

MinInt64Digits == Chars(<<9,2,2,3,3,7,2,0,3,6,8,5,4,7,7,5,8,0,8>>)

\* str is a decimal numeral of a number in [-2^63, 2^63 - 1], judged on its
\* digits
IsInt64Numeral(str) ==
    LET ds == DigitsOf(str)
    IN  /\ ds # <<>>
        /\ \A i \in 1..Len(ds) : IsDigit(ds[i])
        /\ LET m == StripZeros(ds)
               bound == IF HasMinus(str) THEN MinInt64Digits ELSE MaxInt64Digits
           IN  Len(m) < Len(bound) \/ (Len(m) = Len(bound) /\ DigitsLeq(m, bound))

\* the numeral of str without "+" and leading zeros
Canonical(str) ==
    LET m == StripZeros(DigitsOf(str))
    IN  IF HasMinus(str) /\ m # <<"0">> THEN <<"-">> \o m ELSE m

\* limbs divided by 10: quotient and remainder, from the top limb down
RECURSIVE DivTen(_, _)
DivTen(limbs, rem) ==
    IF limbs = <<>> THEN [limbs |-> <<>>, rem |-> rem]
    ELSE LET n == Len(limbs)
             t == rem * LimbBase + limbs[n]
             low == DivTen(SubSeq(limbs, 1, n - 1), t % 10)
         IN  [limbs |-> Append(low.limbs, t \div 10), rem |-> low.rem]

RECURSIVE FormatUint(_)
FormatUint(v) ==
    LET q == DivTen(v, 0)
    IN  IF q.limbs = Zero64 THEN <<DigitChars[q.rem + 1]>>
        ELSE Append(FormatUint(q.limbs), DigitChars[q.rem + 1])

\* the decimal numeral of an int64
FormatInt(v) ==
    IF IsNegative(v) THEN <<"-">> \o FormatUint(Negate(v)) ELSE FormatUint(v)

Absent == req.values = <<>>

\* C12 (as claimed): an accessor returns the default when the parameter is
\* absent or its value is no numeral of the accessor's type, and otherwise the
\* value converted without loss; GetInt returns the number GetInt64 returns.
C12_AccessorsConvert ==
    /\ got.op = "GetStringSlice" => got.result = req.values
    /\ got.op = "GetString" =>
           got.result = IF Absent THEN got.def ELSE req.values[1]
    /\ got.op = "GetInt64" =>
           IF Absent \/ ~IsInt64Numeral(req.values[1])
           THEN got.result = got.def
           ELSE FormatInt(got.result) = Canonical(req.values[1])
    /\ got.op = "GetInt" =>
           IF Absent \/ ~IsInt64Numeral(req.values[1])
           THEN got.result = got.def
           ELSE FormatInt(got.result) = Canonical(req.values[1])

\* C13: the template of a render call receives a View whose Controller is the
\* controller's name, Name the requested view, Bag the controller's ViewBag
\* and Model the caller's model; Render(view) is RenderViewModel(view, nil).
C13_ViewPassed ==
    lastOp = "render" =>
        /\ resp.execs = 1 =>
               /\ call.vm.Controller = call.c.Name
               /\ call.vm.Name = call.view
               /\ call.vm.Bag = call.c.ViewBag
               /\ call.vm.Model = call.model
        /\ call.method = "Render" =>
               \E fault \in ExecFaults :
                   LET r == renderViewModel(templates, viewRootDir, call.c,
                                            call.view, Nil, fault)
                   IN  resp = r.resp /\ call.vm = r.vm /\ call.vm.Model = Nil

\* a view executed with a model and a filled bag
C13_Witness ==
    /\ lastOp = "render"
    /\ call.method = "RenderViewModel"
    /\ call.model = "everyone"
    /\ call.c.ViewBag # EmptyBag
    /\ resp.execs = 1
    /\ ~resp.failed
    /\ call.vm.Model = "everyone"

\* the names a directory listing can hold
EntryNames == FileNames \cup DirNames

\* every order in which the entries can be listed
AllListOrders ==
    { o \in [1..Cardinality(EntryNames) -> EntryNames] :
        \A i, j \in 1..Cardinality(EntryNames) : o[i] = o[j] => i = j }

\* C14 (as claimed): the registry a build leaves does not depend on the order
\* in which directories list their entries, every set holds all the files of
\* the directories above it, and no set holds a file of a directory that is
\* not on its own path.
C14_OrderIndependent ==
    (lastOp = "setup" /\ setupRet # "already") =>
        /\ \A o \in AllListOrders :
               parseViewDirectory(fs, viewRootDir, EmptyMap, EmptyMap, o).reg
                   = templates
        /\ \A k \in DOMAIN templates :
               /\ \A p \in PathTo(Resolve(k)) : fs.files[p] \subseteq DOMAIN templates[k]
               /\ \A n \in DOMAIN templates[k] :
                      templates[k][n].dir \in PathTo(Resolve(k))

\* C15 (as claimed): after a successful build with any rootDir, for every
\* registered directory root/c/v the key the build stored is the key render
\* computes for (c, v), so render(c, v) uses that directory's own set.
C15_StoredKeyIsLookupKey ==
    LET d == <<resp.controller, resp.view>>
    IN  (lastOp = "render" /\ buildRet = "nil" /\ d \in Dirs /\ Registered(d)) =>
            /\ Key1 \in DOMAIN templates
            /\ resp.used = Key1
            /\ Resolve(resp.used) = d

====
